---- MODULE Spec2Model ----
(***************************************************************************)
(* Model of the proximity search of Postal_Code_ETL                        *)
(* (src/src/postalcode_loader.py, class PostalCodeLoader).                 *)
(*                                                                         *)
(* Units.  Coordinates are whole degrees.  Lengths (radius_km, geodesic    *)
(* distances) are whole metres, so radius_km = 50 is written 50000.  The   *)
(* float expressions of the source are evaluated exactly, by cross         *)
(* multiplication, instead of in IEEE doubles.                             *)
(*                                                                         *)
(* A CSV cell of the Latitude/Longitude columns is <<>> when it is empty   *)
(* (pandas reads it as NaN) and <<x>> when it holds the number x.          *)
(* A pandas frame or series over the coordinates file is the set of its    *)
(* index labels: read_csv gives the i-th data line the label i, and dropna *)
(* and boolean indexing keep the labels of the rows they keep.             *)
(***************************************************************************)
EXTENDS Integers, Sequences, FiniteSets, TLC

VARIABLES coordinates_file, last, conv, files, stage, tasks, web, coordinates,
          finished

vars ==
    <<coordinates_file, last, conv, files, stage, tasks, web, coordinates,
      finished>>

\* The variables of the searches, and the variables they leave alone.
searchVars == <<coordinates_file, last>>

otherVars == <<conv, files, stage, tasks, web, coordinates, finished>>

(***************************************************************************)
(* Bounds of the model.                                                    *)
(***************************************************************************)
\* Largest number of data lines of the coordinates file.
MaxRows == 3

\* Largest number of characters of a string handed to _str_to_list.
MaxLen == 4

(***************************************************************************)
(* Values.                                                                 *)
(***************************************************************************)
\* Python's None, as an argument and as a return value.
None == "<None>"

\* The coordinates file: whether os.path.exists finds it, and its data lines.
File(rows) == [exists |-> TRUE, rows |-> rows]

NoFile == [exists |-> FALSE, rows |-> <<>>]

\* The diagnostics the two searches log and print before returning None.
FileMissing == "The file does not exists. Get coordinates for postal codes"

MissingReference == "No reference place was provided"

ReferenceNotFound == "Reference place not found"

\* The exception Series.drop raises for a label that is not in the series.
KeyError == "KeyError"

\* The exception geopy raises for a coordinate that is not finite.
ValueError == "ValueError"

Row(pc, city, lat, lon) ==
    [PostalCode |-> pc, City |-> city, Latitude |-> lat, Longitude |-> lon]

\* The data lines the model draws coordinates files from: a reference town,
\* a row one degree north of it, a row two degrees east of it, a second row
\* with the reference's PostalCode two degrees south, a row with another
\* PostalCode at the reference's coordinates, and a row without Longitude.
RowUniverse ==
    { Row("01067", "Dresden", <<60>>, <<10>>),
      Row("10115", "Berlin",  <<61>>, <<10>>),
      Row("20095", "Hamburg", <<60>>, <<12>>),
      Row("01067", "Dresden", <<58>>, <<10>>),
      Row("01069", "Dresden", <<60>>, <<10>>),
      Row("10115", "Berlin",  <<61>>, <<>>) }

\* The selectors a caller passes: None, stored values, and values that differ
\* from a stored one only in zero padding or in case.
PostalCodeArgs == {None, "01067", "1067", "10115"}

CityArgs == {None, "Dresden", "dresden"}

\* radius_km in metres: negative, zero, the radius that puts the northern row
\* on the latitude edge, the one that puts the eastern row on the longitude
\* edge, the geodesic distance of the eastern row, and a wide radius.
Radii == {-50000, 0, 110574, 111320, 111596, 300000}

Files ==
    {NoFile} \cup
    { File(rows) : rows \in UNION { [1..n -> RowUniverse] : n \in 0..MaxRows } }

(***************************************************************************)
(* pandas and geopy helpers.                                               *)
(***************************************************************************)
isna(cell) == cell = <<>>

\* Variant: dropna(subset=["Latitude"]), the Longitude column forgotten.
dropna_latitude_only(df) ==
    { i \in DOMAIN df : df[i].Latitude # <<>> }

\* Variant: how="all", a row is dropped only when both cells are empty.
dropna_how_all(df) ==
    { i \in DOMAIN df : df[i].Longitude # <<>> \/ df[i].Latitude # <<>> }

\* dropna(subset=["Longitude", "Latitude"], how="any"): the labels that stay.
dropna(df) ==
    { i \in DOMAIN df : ~ isna(df[i].Longitude) /\ ~ isna(df[i].Latitude) }

\* Variant: .iloc[-1], the row with the largest label.
iloc_last(labels) == CHOOSE i \in labels : \A j \in labels : i >= j

\* reference_row[...].iloc[0]: the row with the smallest label.
iloc0(labels) == CHOOSE i \in labels : \A j \in labels : i <= j

\* WGS-84 geodesic distances in metres between the coordinates of RowUniverse.
GeodesicTable ==
    { << <<60, 10>>, <<61, 10>>, 111421 >>,
      << <<60, 10>>, <<60, 12>>, 111596 >>,
      << <<60, 10>>, <<58, 10>>, 222790 >>,
      << <<61, 10>>, <<60, 12>>, 156496 >>,
      << <<61, 10>>, <<58, 10>>, 334211 >>,
      << <<60, 12>>, <<58, 10>>, 250670 >> }

\* geodesic(point, reference_point).kilometers, in metres.
geodesic(point, reference_point) ==
    IF point = reference_point
    THEN 0
    ELSE LET e == CHOOSE e \in GeodesicTable :
                      {e[1], e[2]} = {point, reference_point}
         IN  e[3]

\* _calculate_distance(row, reference_latitude, reference_longitude).
calculate_distance(row, reference_latitude, reference_longitude) ==
    geodesic(<<row.Latitude[1], row.Longitude[1]>>,
             <<reference_latitude, reference_longitude>>)

\* math.cos(math.radians(lat)) in units of 1/1000, for the latitudes of
\* RowUniverse.
Cos1000(lat) ==
    CASE lat = 58 -> 530
      [] lat = 60 -> 500
      [] lat = 61 -> 485

\* 110.574 km, the length of one degree of latitude, in metres.
KmPerDegreeLatitude == 110574

\* 111.32 km, the length of one degree of longitude at the equator, in metres.
KmPerDegreeLongitude == 111320

(***************************************************************************)
(* The steps of the two searches.                                          *)
(***************************************************************************)
\* A postal code without its zero padding, as read_csv reads it when the
\* column is not declared a string.
Unpadded(code) == IF code = "01067" THEN "1067" ELSE code

\* Variant: the comparison ignores zero padding.
postal_code_matches_unpadded(row, reference_postal_code) ==
    Unpadded(row.PostalCode) = Unpadded(reference_postal_code)

\* postal_codes_df['PostalCode'] == reference_postal_code, for one row.
postal_code_matches(row, reference_postal_code) ==
    row.PostalCode = reference_postal_code

\* postal_codes_df['City'] == reference_city, for one row.
city_matches(row, reference_city) ==
    row.City = reference_city

\* Variant: the latitude bounds are compared with < instead of <=.
latitude_in_box_strict(cell, reference_latitude, radius_km) ==
    /\ cell # <<>>
    /\ reference_latitude # <<>>
    /\ (reference_latitude[1] - cell[1]) * KmPerDegreeLatitude < radius_km
    /\ (cell[1] - reference_latitude[1]) * KmPerDegreeLatitude < radius_km

\* A comparison with NaN is False.
\* bounding_box[0] <= Latitude <= bounding_box[2], with
\* bounding_box[0], [2] = reference latitude -/+ radius_km / 110.574.
latitude_in_box(cell, reference_latitude, radius_km) ==
    /\ ~ isna(cell)
    /\ ~ isna(reference_latitude)
    /\ (reference_latitude[1] - cell[1]) * KmPerDegreeLatitude <= radius_km
    /\ (cell[1] - reference_latitude[1]) * KmPerDegreeLatitude <= radius_km

\* bounding_box[1] <= Longitude <= bounding_box[3], with bounding_box[1], [3]
\* = reference longitude -/+ radius_km / (111.32 * cos(reference latitude));
\* the divisor is positive for every latitude of RowUniverse.
longitude_in_box(cell, reference_latitude, reference_longitude, radius_km) ==
    /\ ~ isna(cell)
    /\ ~ isna(reference_latitude)
    /\ ~ isna(reference_longitude)
    /\ (reference_longitude[1] - cell[1]) * KmPerDegreeLongitude
            * Cos1000(reference_latitude[1]) <= radius_km * 1000
    /\ (cell[1] - reference_longitude[1]) * KmPerDegreeLongitude
            * Cos1000(reference_latitude[1]) <= radius_km * 1000

\* The rows of postal_codes_df inside the bounding box.
select_in_box(rows, df, reference_latitude, reference_longitude, radius_km) ==
    { i \in df :
        /\ latitude_in_box(rows[i].Latitude, reference_latitude, radius_km)
        /\ longitude_in_box(rows[i].Longitude, reference_latitude,
                            reference_longitude, radius_km) }

\* Variant: only the first row of reference_row is taken out.
drop_first_only(series, labels) == series \ {iloc0(labels)}

\* Variant: the reference rows are left in the series.
drop_nothing(series, labels) == series

\* nearby_postal_codes.drop(reference_row.index, inplace=True): the labels
\* left; Series.drop raises KeyError when a label is not in the series.
drop_raises(series, labels) == ~ (labels \subseteq series)

drop(series, labels) == series \ labels

\* Variant: the upper bound is compared with <= instead of <.
within_distance_upto(distance, radius_km) ==
    distance > 0 /\ distance <= radius_km

\* Variant: the radius comparison is written the wrong way round.
within_distance_flipped(distance, radius_km) ==
    distance > 0 /\ distance > radius_km

\* Variant: both bounds are compared inclusively.
within_distance_closed(distance, radius_km) ==
    distance >= 0 /\ distance <= radius_km

\* (Distance > 0) & (Distance < radius_km), for one row.
within_distance(distance, radius_km) ==
    distance > 0 /\ distance < radius_km

\* What a call hands back: the returned object ("Series" with its labels,
\* "None" with the diagnostic printed, or "Raise" with the exception), the
\* labels of reference_row, the box selection before the drop, and whether
\* the coordinates step (bounding box or distances) was reached.
Outcome(returned, msg, nearby, selected, reference_row, computed) ==
    [returned |-> returned, msg |-> msg, nearby |-> nearby,
     selected |-> selected, reference_row |-> reference_row,
     computed |-> computed]

\* Variant: the diagnostic is raised instead of printed.
raise_instead(msg) ==
    [returned |-> "Raise", msg |-> msg, nearby |-> {}, selected |-> {},
     reference_row |-> {}, computed |-> FALSE]

\* logger.error(msg); print(msg); return
ReturnNone(msg) == Outcome("None", msg, {}, {}, {}, FALSE)

\* PostalCodeLoader.find_nearby_postal_codes_by_bounding
find_nearby_postal_codes_by_bounding(file, reference_postal_code, radius_km) ==
    IF ~ file.exists THEN ReturnNone(FileMissing)
    ELSE
    LET rows == file.rows
        postal_codes_df == dropna(rows)
    IN
    IF reference_postal_code = None THEN ReturnNone(MissingReference)
    ELSE
    LET reference_row ==
            { i \in postal_codes_df :
                postal_code_matches(rows[i], reference_postal_code) }
    IN
    IF reference_row = {} THEN ReturnNone(ReferenceNotFound)
    ELSE
    LET reference_latitude == rows[iloc0(reference_row)].Latitude
        reference_longitude == rows[iloc0(reference_row)].Longitude
        nearby_postal_codes ==
            select_in_box(rows, postal_codes_df, reference_latitude,
                          reference_longitude, radius_km)
    IN
    IF drop_raises(nearby_postal_codes, reference_row)
    THEN Outcome("Raise", KeyError, {}, nearby_postal_codes, reference_row,
                 TRUE)
    ELSE Outcome("Series", "", drop(nearby_postal_codes, reference_row),
                 nearby_postal_codes, reference_row, TRUE)

\* Variant: the city is looked at before the postal code.
reference_row_city_first(rows, df, reference_postal_code, reference_city) ==
    IF reference_city # None
    THEN { i \in df : city_matches(rows[i], reference_city) }
    ELSE { i \in df : postal_code_matches(rows[i], reference_postal_code) }

\* reference_row of find_nearby_postal_codes_by_distance: the rows matching
\* the postal code if one is passed, elif a city is passed the rows matching
\* the city.
reference_row_by_selector(rows, df, reference_postal_code, reference_city) ==
    IF reference_postal_code # None
    THEN { i \in df : postal_code_matches(rows[i], reference_postal_code) }
    ELSE { i \in df : city_matches(rows[i], reference_city) }

\* PostalCodeLoader.find_nearby_postal_codes_by_distance
find_nearby_postal_codes_by_distance(file, reference_postal_code, reference_city, radius_km) ==
    IF ~ file.exists THEN ReturnNone(FileMissing)
    ELSE
    LET rows == file.rows
        postal_codes_df == dropna(rows)
    IN
    IF reference_postal_code = None /\ reference_city = None
    THEN ReturnNone(MissingReference)
    ELSE
    LET reference_row ==
            reference_row_by_selector(rows, postal_codes_df,
                                      reference_postal_code, reference_city)
    IN
    IF reference_row = {} THEN ReturnNone(ReferenceNotFound)
    ELSE
    LET reference_latitude == rows[iloc0(reference_row)].Latitude
        reference_longitude == rows[iloc0(reference_row)].Longitude
    IN
    \* geopy refuses a coordinate that is not finite.
    IF \/ isna(reference_latitude) \/ isna(reference_longitude)
       \/ \E i \in postal_codes_df :
             isna(rows[i].Latitude) \/ isna(rows[i].Longitude)
    THEN Outcome("Raise", ValueError, {}, {}, reference_row, TRUE)
    ELSE
    LET Distance == [ i \in postal_codes_df |->
                        calculate_distance(rows[i], reference_latitude[1],
                                           reference_longitude[1]) ]
        nearby_postal_codes ==
            { i \in postal_codes_df : within_distance(Distance[i], radius_km) }
    IN
    Outcome("Series", "", nearby_postal_codes, nearby_postal_codes,
            reference_row, TRUE)

(***************************************************************************)
(* PostalCodeTransform._str_to_list.  A Python string is the sequence of   *)
(* its characters; the en dash U+2013 is written "~".                      *)
(***************************************************************************)
EnDash == "~"

Digits == {"0", "1", "2", "3", "4", "5", "6", "7", "8", "9"}

\* The characters the model draws the strings of the PostalCode column from.
StrAlphabet == {"1", "3", ",", EnDash, " "}

StrInputs == UNION { [1..n -> StrAlphabet] : n \in 0..MaxLen }

\* "".join(chars)
RECURSIVE Join(_)
Join(chars) == IF chars = <<>> THEN "" ELSE Head(chars) \o Join(Tail(chars))

DigitValue(c) ==
    CASE c = "0" -> 0 [] c = "1" -> 1 [] c = "2" -> 2 [] c = "3" -> 3
      [] c = "4" -> 4 [] c = "5" -> 5 [] c = "6" -> 6 [] c = "7" -> 7
      [] c = "8" -> 8 [] c = "9" -> 9

DigitChar(d) == CHOOSE c \in Digits : DigitValue(c) = d

\* int(digits), for a non-empty run of digits.
RECURSIVE int(_)
int(digits) ==
    IF Len(digits) = 1
    THEN DigitValue(digits[1])
    ELSE int(SubSeq(digits, 1, Len(digits) - 1)) * 10
         + DigitValue(digits[Len(digits)])

\* str(n), for n >= 0.
RECURSIVE str(_)
str(n) == IF n < 10 THEN DigitChar(n) ELSE str(n \div 10) \o DigitChar(n % 10)

\* text.zfill(width): zeros on the left up to width characters.
RECURSIVE zfill(_, _)
zfill(text, width) == IF Len(text) >= width THEN text ELSE zfill("0" \o text, width)

\* f"{n:05d}"
format_05d(n) == zfill(str(n), 5)

\* re.sub(r"[^0-9,~]", "", s): only digits, commas and en dashes stay.
re_sub(s) ==
    SelectSeq(s, LAMBDA c : c \in Digits \cup {",", EnDash})

\* s.split(','), for a sequence of characters.
RECURSIVE split(_)
split(s) ==
    IF \A k \in 1..Len(s) : s[k] # ","
    THEN << s >>
    ELSE LET k == CHOOSE k \in 1..Len(s) :
                      s[k] = "," /\ \A j \in 1..(k - 1) : s[j] # ","
         IN  << SubSeq(s, 1, k - 1) >> \o split(SubSeq(s, k + 1, Len(s)))

\* re.findall(r'\d+', element): the maximal runs of digits, left to right.
RECURSIVE findall_digits(_, _, _)
findall_digits(element, run, found) ==
    IF element = <<>>
    THEN IF run = <<>> THEN found ELSE Append(found, run)
    ELSE IF Head(element) \in Digits
    THEN findall_digits(Tail(element), Append(run, Head(element)), found)
    ELSE findall_digits(Tail(element), <<>>,
                        IF run = <<>> THEN found ELSE Append(found, run))

\* [f"{int(i):05d}" for i in range(int(start), int(end)+1)]
RECURSIVE range_codes(_, _)
range_codes(start, end) ==
    IF start > end THEN <<>>
    ELSE << format_05d(start) >> \o range_codes(start + 1, end)

\* What _str_to_list hands back: the list returned, or the exception raised
\* by the unpacking "start, end = re.findall(...)".
Returned(s_list) == [status |-> "returned", s_list |-> s_list]

Raised(exception) == [status |-> "raised", s_list |-> <<>>]

\* The for loop over s_splited, from the elements still to visit.
RECURSIVE for_element(_, _)
for_element(elements, s_list) ==
    IF elements = <<>> THEN Returned(s_list)
    ELSE
    LET element == Head(elements) IN
    IF \E k \in 1..Len(element) : element[k] = EnDash
    THEN LET numbers == findall_digits(element, <<>>, <<>>) IN
         IF Len(numbers) # 2 THEN Raised(ValueError)
         ELSE for_element(Tail(elements),
                          s_list \o range_codes(int(numbers[1]),
                                                int(numbers[2])))
    ELSE IF element = <<>>
    THEN Returned(s_list)
    ELSE for_element(Tail(elements), Append(s_list, Join(element)))

\* PostalCodeTransform._str_to_list
str_to_list(s) == for_element(split(re_sub(s)), <<>>)

\* The conversion under way: the string handed in and what came back.
Conversion(s, status, s_list) == [s |-> s, status |-> status, s_list |-> s_list]

NoConversion == Conversion(<<>>, "idle", <<>>)

(***************************************************************************)
(* The checkpointed stages (PostalCodeExtraction, PostalCodeTransform).    *)
(* Each stage keeps its output in a CSV file under data/ and does nothing  *)
(* when that file exists.  files maps the stage outputs other than the     *)
(* coordinates file to their content; stage is the stage call under way or *)
(* the last one made: its name, how it ended, the network requests it      *)
(* made, the files it read, and the table or exception it handed back.     *)
(***************************************************************************)
CitiesFile == "germany_cities.csv"

PostalCodesFile == "germany_cities_postalcodes.csv"

CleanedFile == "germany_cities_cleaned_postalcodes.csv"

SplittedFile == "germany_cities_splitted_postalcodes.csv"

CoordinatesFile == "germany_postal_codes_and_coordinates.csv"

StageFiles == {CitiesFile, PostalCodesFile, CleanedFile, SplittedFile}

NoFiles == [f \in StageFiles |-> NoFile]

\* Variant: the checkpoint is never seen.
exists_never(file) == FALSE

\* os.path.exists(file)
exists(file) == file.exists

\* status is idle, running, returned_none, returned_table or raised; rows is
\* the table handed back, exception the exception raised, max_workers the
\* size of the thread pool of a running get_coordinates.
StageCall(name, status, requests, reads, rows, exception, max_workers) ==
    [name |-> name, status |-> status, requests |-> requests, reads |-> reads,
     rows |-> rows, exception |-> exception, max_workers |-> max_workers]

NoStage == StageCall("none", "idle", 0, {}, <<>>, "", 0)

\* A stage that returned None after requests network requests and after
\* reading the files reads.
ReturnedNone(name, requests, reads) ==
    StageCall(name, "returned_none", requests, reads, <<>>, "", 0)

\* A stage that ended in an exception.
StageRaised(name, requests, reads, exception) ==
    StageCall(name, "raised", requests, reads, <<>>, exception, 0)

\* The cities the Wikipedia list page names.
WebCities == << "Dresden", "Berlin" >>

\* A city page without the infobox table.
NoTable == << "<no infobox>" >>

\* What the postal code cell of a city page may hold.
WebPostalCodes == { << "3" >>, << "1", ",", " ", "3" >> }

\* The web as it is served: the postal code cell of the page of each city,
\* or the page without the table.
Webs == [{WebCities[k] : k \in 1..Len(WebCities)} -> WebPostalCodes \cup {NoTable}]

\* No page is served.
NoWeb == [city \in {WebCities[k] : k \in 1..Len(WebCities)} |-> NoTable]

\* PostalCodeExtraction._scrape_city_postal_codes: the cell of the page of
\* the city of the row.
scrape_city_postal_codes(row) == web[row.City]

\* PostalCodeExtraction.scrape_germany_cities
ScrapeGermanyCities ==
    /\ stage.status # "running"
    /\ IF exists(files[CitiesFile])
       THEN /\ stage' = ReturnedNone("scrape_germany_cities", 0, {})
            /\ UNCHANGED files
       ELSE /\ stage' = ReturnedNone("scrape_germany_cities", 1, {})
            /\ files' = [files EXCEPT ![CitiesFile] =
                  File([k \in 1..Len(WebCities) |-> [City |-> WebCities[k]]])]
    /\ UNCHANGED <<coordinates_file, last, conv, tasks, web, coordinates, finished>>

\* PostalCodeExtraction.scrape_postals_code: one request per city through
\* the thread pool; a page without the table makes _scrape_city_postal_codes
\* raise (str_code is not bound), and the exception leaves executor.map.
ScrapePostalsCode ==
    /\ stage.status # "running"
    /\ IF exists(files[PostalCodesFile])
       THEN /\ stage' = ReturnedNone("scrape_postals_code", 0, {})
            /\ UNCHANGED files
       ELSE IF exists(files[CitiesFile])
       THEN LET cities_df == files[CitiesFile].rows IN
            LET results == [k \in 1..Len(cities_df) |->
                               scrape_city_postal_codes(cities_df[k])]
            IN  IF \E k \in 1..Len(cities_df) : results[k] = NoTable
                THEN /\ stage' = StageRaised("scrape_postals_code",
                                             Len(cities_df), {CitiesFile},
                                             "UnboundLocalError")
                     /\ UNCHANGED files
                ELSE /\ stage' = ReturnedNone("scrape_postals_code",
                                              Len(cities_df), {CitiesFile})
                     /\ files' = [files EXCEPT ![PostalCodesFile] =
                           File([k \in 1..Len(cities_df) |->
                                   [City |-> cities_df[k].City,
                                    PostalCode |-> results[k]]])]
       ELSE /\ stage' = ReturnedNone("scrape_postals_code", 0, {})
            /\ UNCHANGED files
    /\ UNCHANGED <<coordinates_file, last, conv, tasks, web, coordinates, finished>>

\* pd.read_csv without dtype reads a column whose cells are all numbers as
\* numbers; _str_to_list then gets an int and re.sub raises TypeError.
read_as_numbers(rows) ==
    \A k \in 1..Len(rows) :
        /\ rows[k].PostalCode # <<>>
        /\ \A j \in 1..Len(rows[k].PostalCode) : rows[k].PostalCode[j] \in Digits

\* PostalCodeTransform.clean_postal_codes
CleanPostalCodes ==
    /\ stage.status # "running"
    /\ IF exists(files[CleanedFile])
       THEN /\ stage' = ReturnedNone("clean_postal_codes", 0, {})
            /\ UNCHANGED files
       ELSE IF ~ files[PostalCodesFile].exists
       THEN /\ stage' = StageRaised("clean_postal_codes", 0, {},
                                    "FileNotFoundError")
            /\ UNCHANGED files
       ELSE LET postal_codes_df == files[PostalCodesFile].rows IN
            IF read_as_numbers(postal_codes_df)
            THEN /\ stage' = StageRaised("clean_postal_codes", 0,
                                         {PostalCodesFile}, "TypeError")
                 /\ UNCHANGED files
            ELSE IF \E k \in 1..Len(postal_codes_df) :
                      str_to_list(postal_codes_df[k].PostalCode).status = "raised"
            THEN /\ stage' = StageRaised("clean_postal_codes", 0,
                                         {PostalCodesFile}, ValueError)
                 /\ UNCHANGED files
            ELSE /\ stage' = ReturnedNone("clean_postal_codes", 0,
                                          {PostalCodesFile})
                 /\ files' = [files EXCEPT ![CleanedFile] =
                       File([k \in 1..Len(postal_codes_df) |->
                               [City |-> postal_codes_df[k].City,
                                PostalCode |->
                                  str_to_list(postal_codes_df[k].PostalCode).s_list]])]
    /\ UNCHANGED <<coordinates_file, last, conv, tasks, web, coordinates, finished>>

\* The cell "['c1', 'c2', ...]" that to_csv writes for a list, after
\* .str.strip(" '[]") and .str.split(','): each piece with the quotes and the
\* blank left on it (text), and the code it holds.
list_pieces(codes) ==
    IF codes = <<>> THEN << [text |-> "", code |-> ""] >>
    ELSE [k \in 1..Len(codes) |->
            [text |-> (IF k = 1 THEN "" ELSE " '") \o codes[k]
                         \o (IF k = Len(codes) THEN "" ELSE "'"),
             code |-> codes[k]]]

\* df.explode('PostalCode'): one row per piece, in order.
RECURSIVE explode(_)
explode(df) ==
    IF df = <<>> THEN <<>>
    ELSE LET pieces == list_pieces(Head(df).PostalCode) IN
         [k \in 1..Len(pieces) |->
            [City |-> Head(df).City, text |-> pieces[k].text,
             code |-> pieces[k].code]]
         \o explode(Tail(df))

\* drop_duplicates(subset=['PostalCode']): the first row of each piece text.
drop_duplicates(df) ==
    LET keep == { k \in 1..Len(df) : \A j \in 1..(k - 1) : df[j].text # df[k].text }
        F[k \in 0..Len(df)] ==
            IF k = 0 THEN <<>>
            ELSE IF k \in keep THEN Append(F[k - 1], df[k]) ELSE F[k - 1]
    IN  F[Len(df)]

\* .str.strip(' ').str.replace("'", ""): the code of each piece.
strip_pieces(df) ==
    [k \in 1..Len(df) |-> [PostalCode |-> df[k].code, City |-> df[k].City]]

\* PostalCodeTransform.split_cities_postal_codes
SplitCitiesPostalCodes ==
    /\ stage.status # "running"
    /\ IF exists(files[SplittedFile])
       THEN /\ stage' = ReturnedNone("split_cities_postal_codes", 0, {})
            /\ UNCHANGED files
       ELSE IF ~ files[CleanedFile].exists
       THEN /\ stage' = StageRaised("split_cities_postal_codes", 0, {},
                                    "FileNotFoundError")
            /\ UNCHANGED files
       ELSE /\ stage' = ReturnedNone("split_cities_postal_codes", 0,
                                     {CleanedFile})
            /\ files' = [files EXCEPT ![SplittedFile] =
                  File(strip_pieces(drop_duplicates(
                           explode(files[CleanedFile].rows))))]
    /\ UNCHANGED <<coordinates_file, last, conv, tasks, web, coordinates, finished>>

(***************************************************************************)
(* Geocoding.  get_coordinates maps geocode_postal_code over the rows of   *)
(* the split file in a pool of max_workers threads.  A task is one call of *)
(* geocode_postal_code: the row it was given, the outcome of each request  *)
(* it has made to the geocoder, and what it handed back.                   *)
(***************************************************************************)
MaxWorkers == 2

\* What one geocoder.geocode call can do: give a location, give None, raise
\* GeocoderServiceError with 'HTTP Error 503' in its text, raise
\* GeocoderTimedOut, raise another GeocoderServiceError, or raise an
\* exception that geocode_postal_code does not catch.
GeocoderOutcomes ==
    {"location", "no_location", "http_503", "timed_out", "service_error",
     "exception"}

\* The location the geocoder knows for a postal code of a city, in whole
\* degrees.
Location(postal_code, city) ==
    IF postal_code = "1" THEN [latitude |-> 60, longitude |-> 10]
    ELSE IF city = "Dresden" THEN [latitude |-> 60, longitude |-> 12]
    ELSE [latitude |-> 61, longitude |-> 10]

Result(kind, postal_code, longitude, latitude) ==
    [kind |-> kind, postal_code |-> postal_code, longitude |-> longitude,
     latitude |-> latitude]

\* geocode_postal_code has not returned yet.
Pending == Result("pending", "", <<>>, <<>>)

\* return postal_code, longitude, latitude (a missing cell is None)
Tuple(postal_code, longitude, latitude) ==
    Result("tuple", postal_code, longitude, latitude)

\* The for loop ended without a return: the function returns None.
ReturnedNoneObject == Result("None", "", <<>>, <<>>)

\* An exception left geocode_postal_code.
TaskRaised == Result("raised", "", <<>>, <<>>)

Task(row, outcomes, result) ==
    [row |-> row, outcomes |-> outcomes, result |-> result]

\* for _ in range(3)
Attempts == 3

\* One pass of the loop of geocode_postal_code, for a task that has not
\* returned: the request ends in outcome.
geocode_postal_code(task, outcome) ==
    LET postal_code == task.row.PostalCode
        outcomes == Append(task.outcomes, outcome)
    IN  IF outcome = "location"
        THEN Task(task.row, outcomes,
                  Tuple(postal_code,
                        << Location(postal_code, task.row.City).longitude >>,
                        << Location(postal_code, task.row.City).latitude >>))
        ELSE IF outcome = "no_location"
        THEN Task(task.row, outcomes, Tuple(postal_code, <<>>, <<>>))
        ELSE IF outcome = "http_503"
        THEN IF Len(outcomes) < Attempts
             THEN Task(task.row, outcomes, Pending)
             ELSE Task(task.row, outcomes, ReturnedNoneObject)
        ELSE IF outcome \in {"timed_out", "service_error"}
        THEN Task(task.row, outcomes, Tuple(postal_code, <<>>, <<>>))
        ELSE Task(task.row, outcomes, TaskRaised)

\* A worker thread holds the task: it has made a request and not returned.
InWorker(task) == task.outcomes # <<>> /\ task.result = Pending

\* The pool hands the queued tasks to free threads in the order of
\* submission.
MayRun(k) ==
    /\ tasks[k].result = Pending
    /\ \/ InWorker(tasks[k])
       \/ /\ \A j \in 1..(k - 1) : tasks[j].outcomes # <<>>
          /\ Cardinality({j \in 1..Len(tasks) : InWorker(tasks[j])})
               < stage.max_workers

\* pd.DataFrame(coordinates, columns=[...]): a None among tuples becomes a
\* row of None; with None first the list is read as one column and the
\* three column names do not fit (ValueError).
coordinates_df_raises(data) ==
    data # <<>> /\ data[1] = ReturnedNoneObject

\* Variant: an inner merge, which drops the rows without a match.
RECURSIVE merge_inner(_, _)
merge_inner(postal_codes_df, coordinates_df) ==
    IF postal_codes_df = <<>> THEN <<>>
    ELSE LET row == Head(postal_codes_df)
             matches == SelectSeq(coordinates_df, LAMBDA c :
                            c.kind = "tuple" /\ c.postal_code = row.PostalCode)
         IN  [k \in 1..Len(matches) |->
                Row(row.PostalCode, row.City, matches[k].latitude,
                    matches[k].longitude)]
             \o merge_inner(Tail(postal_codes_df), coordinates_df)

\* pd.merge(postal_codes_df, coordinates_df, on='PostalCode', how='left')
RECURSIVE merge(_, _)
merge(postal_codes_df, coordinates_df) ==
    IF postal_codes_df = <<>> THEN <<>>
    ELSE LET row == Head(postal_codes_df)
             matches == SelectSeq(coordinates_df, LAMBDA c :
                            c.kind = "tuple" /\ c.postal_code = row.PostalCode)
         IN  (IF matches = <<>>
              THEN << Row(row.PostalCode, row.City, <<>>, <<>>) >>
              ELSE [k \in 1..Len(matches) |->
                      Row(row.PostalCode, row.City, matches[k].latitude,
                          matches[k].longitude)])
             \o merge(Tail(postal_codes_df), coordinates_df)

\* Variant: the results in the order in which the tasks finished.
collected_as_completed(ts) == [k \in 1..Len(ts) |-> ts[finished[k]].result]

\* list(executor.map(...)): the result of each task, in the order in which
\* the tasks were submitted, whatever the order in which they finished.
collected(ts) == [k \in 1..Len(ts) |-> ts[k].result]

\* Variant: get_coordinates without the test for the split file.
GetCoordinates_unguarded ==
    /\ stage.status # "running"
    /\ \E max_workers \in 1..MaxWorkers :
         IF exists(coordinates_file)
         THEN /\ stage' = StageCall("get_coordinates", "returned_table", 0,
                                    {CoordinatesFile}, coordinates_file.rows,
                                    "", 0)
              /\ UNCHANGED tasks
         ELSE IF ~ files[SplittedFile].exists
         THEN /\ stage' = StageRaised("get_coordinates", 0, {},
                                      "FileNotFoundError")
              /\ UNCHANGED tasks
         ELSE /\ stage' = StageCall("get_coordinates", "running", 0,
                                    {SplittedFile}, <<>>, "", max_workers)
              /\ tasks' = [k \in 1..Len(files[SplittedFile].rows) |->
                             Task(files[SplittedFile].rows[k], <<>>, Pending)]
    /\ coordinates' = <<>>
    /\ finished' = <<>>
    /\ UNCHANGED <<coordinates_file, files, last, conv, web>>

\* PostalCodeTransform.get_coordinates up to executor.map: the stored table
\* is returned if there is one; without the split file nothing is done;
\* otherwise one task per row of the split file is submitted.
GetCoordinates ==
    /\ stage.status # "running"
    /\ \E max_workers \in 1..MaxWorkers :
         IF exists(coordinates_file)
         THEN /\ stage' = StageCall("get_coordinates", "returned_table", 0,
                                    {CoordinatesFile}, coordinates_file.rows,
                                    "", 0)
              /\ UNCHANGED tasks
         ELSE IF ~ exists(files[SplittedFile])
         THEN /\ stage' = ReturnedNone("get_coordinates", 0, {})
              /\ UNCHANGED tasks
         ELSE /\ stage' = StageCall("get_coordinates", "running", 0,
                                    {SplittedFile}, <<>>, "", max_workers)
              /\ tasks' = [k \in 1..Len(files[SplittedFile].rows) |->
                             Task(files[SplittedFile].rows[k], <<>>, Pending)]
    /\ coordinates' = <<>>
    /\ finished' = <<>>
    /\ UNCHANGED <<coordinates_file, files, last, conv, web>>

\* A thread of the pool makes the next request of its task.
Geocode ==
    /\ stage.status = "running"
    /\ \E k \in 1..Len(tasks), outcome \in GeocoderOutcomes :
         /\ MayRun(k)
         /\ tasks' = [tasks EXCEPT ![k] = geocode_postal_code(tasks[k], outcome)]
         /\ finished' = IF tasks'[k].result = Pending THEN finished
                        ELSE Append(finished, k)
         /\ stage' = [stage EXCEPT !.requests = stage.requests + 1]
    /\ UNCHANGED <<coordinates_file, files, last, conv, web, coordinates>>

\* list(executor.map(...)) meets the exception of a task: the tasks still
\* queued are cancelled, the with block waits for the running ones, and the
\* exception leaves get_coordinates.
GetCoordinatesRaises ==
    /\ stage.status = "running"
    /\ \E k \in 1..Len(tasks) :
         /\ tasks[k].result = TaskRaised
         /\ \A j \in 1..(k - 1) : tasks[j].result # Pending
    /\ \A k \in 1..Len(tasks) : ~ InWorker(tasks[k])
    /\ stage' = [stage EXCEPT !.status = "raised", !.exception = "Exception",
                              !.max_workers = 0]
    /\ tasks' = <<>>
    /\ UNCHANGED <<coordinates_file, files, last, conv, web, coordinates, finished>>

\* PostalCodeTransform.get_coordinates after executor.map: every task has
\* returned; the results are merged into the rows, saved and returned.
GetCoordinatesReturns ==
    /\ stage.status = "running"
    /\ \A k \in 1..Len(tasks) : tasks[k].result \notin {Pending, TaskRaised}
    /\ coordinates' = collected(tasks)
    /\ LET postal_codes_df == [k \in 1..Len(tasks) |-> tasks[k].row]
       IN  IF coordinates_df_raises(coordinates')
           THEN /\ stage' = [stage EXCEPT !.status = "raised",
                                          !.exception = ValueError,
                                          !.max_workers = 0]
                /\ UNCHANGED coordinates_file
           ELSE /\ stage' = [stage EXCEPT !.status = "returned_table",
                                          !.rows = merge(postal_codes_df, coordinates'),
                                          !.max_workers = 0]
                /\ coordinates_file' = File(merge(postal_codes_df, coordinates'))
    /\ tasks' = <<>>
    /\ UNCHANGED <<files, last, conv, web, finished>>

(***************************************************************************)
(* The state machine: the coordinates file, and the last search call with  *)
(* the file content it read, its arguments and what it handed back.        *)
(***************************************************************************)
Call(op, file, reference_postal_code, reference_city, radius_km, out) ==
    [op |-> op, file |-> file,
     reference_postal_code |-> reference_postal_code,
     reference_city |-> reference_city, radius_km |-> radius_km, out |-> out]

NoCall == Call("none", NoFile, None, None, 0, ReturnNone(""))

Init ==
    /\ coordinates_file \in Files
    /\ last = NoCall
    /\ conv = NoConversion
    /\ files = NoFiles
    /\ stage = NoStage
    /\ tasks = <<>>
    /\ web = NoWeb
    /\ coordinates = <<>>
    /\ finished = <<>>

FindNearbyByBounding ==
    \E reference_postal_code \in PostalCodeArgs, radius_km \in Radii :
        /\ last' = Call("bounding", coordinates_file, reference_postal_code,
                        None, radius_km,
                        find_nearby_postal_codes_by_bounding(
                            coordinates_file, reference_postal_code,
                            radius_km))
        /\ UNCHANGED coordinates_file
        /\ UNCHANGED otherVars

\* Variant: the frame left by dropna is written back over the coordinates
\* file.
FindNearbyByDistance_saving ==
    \E reference_postal_code \in PostalCodeArgs,
       reference_city \in CityArgs, radius_km \in Radii :
        /\ last' = Call("distance", coordinates_file, reference_postal_code,
                        reference_city, radius_km,
                        find_nearby_postal_codes_by_distance(
                            coordinates_file, reference_postal_code,
                            reference_city, radius_km))
        /\ coordinates_file' =
              IF coordinates_file.exists
              THEN File(SelectSeq(coordinates_file.rows,
                                  LAMBDA r : ~ isna(r.Longitude)
                                             /\ ~ isna(r.Latitude)))
              ELSE coordinates_file
        /\ UNCHANGED otherVars

FindNearbyByDistance ==
    \E reference_postal_code \in PostalCodeArgs,
       reference_city \in CityArgs, radius_km \in Radii :
        /\ last' = Call("distance", coordinates_file, reference_postal_code,
                        reference_city, radius_km,
                        find_nearby_postal_codes_by_distance(
                            coordinates_file, reference_postal_code,
                            reference_city, radius_km))
        /\ UNCHANGED coordinates_file
        /\ UNCHANGED otherVars

Next ==
    \/ FindNearbyByBounding
    \/ FindNearbyByDistance

Spec == Init /\ [][Next]_vars

(***************************************************************************)
(* _str_to_list applied to one string of the PostalCode column.            *)
(***************************************************************************)
StrInit ==
    /\ coordinates_file = NoFile
    /\ last = NoCall
    /\ \E s \in StrInputs : conv = Conversion(s, "called", <<>>)
    /\ files = NoFiles
    /\ stage = NoStage
    /\ tasks = <<>>
    /\ web = NoWeb
    /\ coordinates = <<>>
    /\ finished = <<>>

StrToList ==
    /\ conv.status = "called"
    /\ conv' = Conversion(conv.s, str_to_list(conv.s).status,
                          str_to_list(conv.s).s_list)
    /\ UNCHANGED <<searchVars, files, stage, tasks, web, coordinates, finished>>

StrNext == StrToList

StrSpec == StrInit /\ [][StrNext]_vars

(***************************************************************************)
(* The pipeline: the stages called in any order, from an empty data        *)
(* folder.                                                                 *)
(***************************************************************************)
PipelineInit ==
    /\ coordinates_file = NoFile
    /\ files = NoFiles
    /\ stage = NoStage
    /\ tasks = <<>>
    /\ web \in Webs
    /\ coordinates = <<>>
    /\ finished = <<>>
    /\ last = NoCall
    /\ conv = NoConversion

PipelineNext ==
    \/ ScrapeGermanyCities
    \/ ScrapePostalsCode
    \/ CleanPostalCodes
    \/ SplitCitiesPostalCodes
    \/ GetCoordinates
    \/ Geocode
    \/ GetCoordinatesRaises
    \/ GetCoordinatesReturns

PipelineSpec == PipelineInit /\ [][PipelineNext]_vars

(***************************************************************************)
(* Properties.  They are stated on the last call: the file content it      *)
(* read, its arguments, and what it handed back.                           *)
(***************************************************************************)
Searched == last.op \in {"bounding", "distance"}

ReturnedSeries == last.out.returned = "Series"

\* The labels of the rows of the file read that have both coordinates.
Geocoded == { i \in DOMAIN last.file.rows :
                /\ last.file.rows[i].Latitude # <<>>
                /\ last.file.rows[i].Longitude # <<>> }

\* The selector the call resolves the reference with: the postal code when one
\* is passed, else the city (find_nearby_postal_codes_by_distance only).
SelectorGiven ==
    \/ last.reference_postal_code # None
    \/ last.op = "distance" /\ last.reference_city # None

\* The geocoded rows whose PostalCode (or City) is the selector, character
\* for character.
Matching ==
    IF last.reference_postal_code # None
    THEN { i \in Geocoded :
             last.file.rows[i].PostalCode = last.reference_postal_code }
    ELSE IF last.op = "distance" /\ last.reference_city # None
    THEN { i \in Geocoded : last.file.rows[i].City = last.reference_city }
    ELSE {}

Resolves == Searched /\ last.file.exists /\ Matching # {}

\* The resolved reference row: the first geocoded row matching the selector.
ReferenceLabel == CHOOSE i \in Matching : \A j \in Matching : i <= j

PointOf(i) == << last.file.rows[i].Latitude[1], last.file.rows[i].Longitude[1] >>

\* Geodesic distance in metres from row i to the reference coordinates.
DistanceOf(i) == geodesic(PointOf(i), PointOf(ReferenceLabel))

Abs(x) == IF x < 0 THEN -x ELSE x

\* Row i lies in the closed box around the reference coordinates:
\* |lat - lat0| <= R / 110.574 and |lon - lon0| <= R / (111.32 cos lat0).
InClosedBox(i) ==
    /\ Abs(PointOf(i)[1] - PointOf(ReferenceLabel)[1]) * 110574
           <= last.radius_km
    /\ Abs(PointOf(i)[2] - PointOf(ReferenceLabel)[2]) * 111320
           * Cos1000(PointOf(ReferenceLabel)[1]) <= last.radius_km * 1000

\* Row i lies on an edge of that box.
OnBoxEdge(i) ==
    /\ InClosedBox(i)
    /\ \/ Abs(PointOf(i)[1] - PointOf(ReferenceLabel)[1]) * 110574
             = last.radius_km
       \/ Abs(PointOf(i)[2] - PointOf(ReferenceLabel)[2]) * 111320
             * Cos1000(PointOf(ReferenceLabel)[1]) = last.radius_km * 1000

\* The postal codes of a set of rows of the file read.
CodesOf(labels) == { last.file.rows[i].PostalCode : i \in labels }

\* C1: whenever a search hands back a result, the resolved reference row
\* (the first geocoded row matching the selector) is not in it, for either
\* operation and every radius.
C1_ReferenceRowExcluded ==
    (Searched /\ ReturnedSeries) =>
        /\ Resolves
        /\ ReferenceLabel \notin last.out.nearby

\* A bounding search whose box held the reference row and other rows handed
\* back a non-empty result.
C1_Witness ==
    /\ last.op = "bounding"
    /\ ReturnedSeries
    /\ ReferenceLabel \in last.out.selected
    /\ last.out.nearby # {}

\* C2: when the reference resolves, the distance search hands back exactly
\* the geocoded rows whose distance d to the reference coordinates satisfies
\* 0 < d < radius_km, both bounds strict.
C2_DistanceOpenInterval ==
    (last.op = "distance" /\ Resolves) =>
        /\ ReturnedSeries
        /\ last.out.nearby =
             { i \in Geocoded :
                 0 < DistanceOf(i) /\ DistanceOf(i) < last.radius_km }

\* A distance search that left out a row at distance exactly radius_km and
\* still found another row.
C2_Witness ==
    /\ last.op = "distance"
    /\ Resolves
    /\ \E i \in Geocoded : DistanceOf(i) = last.radius_km
    /\ last.out.nearby # {}

\* C3: when the reference resolves, the bounding search selects exactly the
\* geocoded rows inside the closed box around the reference coordinates; of
\* these, the result it hands back leaves out only the rows of reference_row.
C3_BoundingClosedBox ==
    (last.op = "bounding" /\ Resolves) =>
        /\ last.out.selected = { i \in Geocoded : InClosedBox(i) }
        /\ ReturnedSeries =>
             /\ last.out.nearby \subseteq last.out.selected
             /\ \A i \in Geocoded \ last.out.reference_row :
                  InClosedBox(i) => i \in last.out.nearby

\* A bounding search handed back a row that lies exactly on the box edge.
C3_Witness ==
    /\ last.op = "bounding"
    /\ Resolves
    /\ ReturnedSeries
    /\ \E i \in last.out.nearby : OnBoxEdge(i)

\* C4: two successive distance searches over the same file with the same
\* selectors and radii R1 < R2: the codes found with R1 are among the codes
\* found with R2.
C4_MonotoneStep ==
    ( /\ last.op = "distance"
      /\ last'.op = "distance"
      /\ last'.file = last.file
      /\ last'.reference_postal_code = last.reference_postal_code
      /\ last'.reference_city = last.reference_city
      /\ last.radius_km < last'.radius_km )
    => { last.file.rows[i].PostalCode : i \in last.out.nearby }
         \subseteq
       { last'.file.rows[i].PostalCode : i \in last'.out.nearby }

C4_DistanceMonotone == [][C4_MonotoneStep]_vars

\* A distance search found some rows, and a larger radius finds more.
C4_Witness ==
    /\ last.op = "distance"
    /\ ReturnedSeries
    /\ last.out.nearby # {}
    /\ \E radius_km \in Radii :
         /\ radius_km > last.radius_km
         /\ find_nearby_postal_codes_by_distance(
                last.file, last.reference_postal_code, last.reference_city,
                radius_km).nearby # last.out.nearby

\* C5: a row without Latitude or without Longitude is never in the rows a
\* search selects or hands back, and is never a row of reference_row.
C5_NoRowWithoutCoordinates ==
    Searched =>
        (last.out.nearby \cup last.out.selected \cup last.out.reference_row)
            \subseteq Geocoded

\* A search found rows in a file that holds a row without coordinates whose
\* PostalCode is the selector.
C5_Witness ==
    /\ Searched
    /\ ReturnedSeries
    /\ last.out.nearby # {}
    /\ \E i \in (DOMAIN last.file.rows) \ Geocoded :
         last.file.rows[i].PostalCode = last.reference_postal_code

\* C6: neither search ever raises: every call hands back a result collection
\* or None.
C6_NeverRaises ==
    Searched => last.out.returned \in {"Series", "None"}

\* C7: a search called without a selector on an existing file hands back
\* None with the MissingReference diagnostic, whatever the file holds.
C7_MissingReference ==
    (Searched /\ last.file.exists /\ ~ SelectorGiven) =>
        /\ last.out.returned = "None"
        /\ last.out.msg = MissingReference

\* A search without a selector over a file that holds geocoded rows.
C7_Witness ==
    /\ Searched
    /\ last.file.exists
    /\ ~ SelectorGiven
    /\ Geocoded # {}
    /\ last.out.msg = MissingReference

\* C8: a search whose selector equals, character for character, the
\* PostalCode (or City) of no geocoded row hands back None with the
\* ReferenceNotFound diagnostic and never reaches the coordinates step.
C8_ReferenceNotFound ==
    (Searched /\ last.file.exists /\ SelectorGiven /\ Matching = {}) =>
        /\ last.out.returned = "None"
        /\ last.out.msg = ReferenceNotFound
        /\ ~ last.out.computed

\* A search for "1067" over a file that holds a geocoded row "01067".
C8_Witness ==
    /\ Searched
    /\ last.reference_postal_code = "1067"
    /\ \E i \in Geocoded : last.file.rows[i].PostalCode = "01067"
    /\ last.out.msg = ReferenceNotFound

\* The search read a non-empty file none of whose rows has both coordinates.
NoGeocodedRow ==
    Searched /\ last.file.exists /\ last.file.rows # <<>> /\ Geocoded = {}

\* C9 as stated: with a selector and no geocoded row, the failure differs
\* from the ReferenceNotFound failure.
C9_NoGeocodedDataDistinct ==
    (NoGeocodedRow /\ SelectorGiven) =>
        ~ (last.out.returned = "None" /\ last.out.msg = ReferenceNotFound)

\* C9 amended: with a selector and no geocoded row, the search hands back
\* None with the ReferenceNotFound diagnostic, the same as for a selector
\* that matches no geocoded row of a file that has some.
C9_NoGeocodedDataIsNotFound ==
    (NoGeocodedRow /\ SelectorGiven) =>
        /\ last.out.returned = "None"
        /\ last.out.msg = ReferenceNotFound

\* A search for "10115" over a file whose only rows carry "10115" and no
\* Longitude.
C9_Witness ==
    /\ NoGeocodedRow
    /\ last.reference_postal_code = "10115"
    /\ \A i \in DOMAIN last.file.rows :
         last.file.rows[i].PostalCode = "10115"

\* C10 as stated: a search with radius_km <= 0 hands back no result
\* collection.
C10_InvalidRadiusRejected ==
    (Searched /\ last.radius_km <= 0) => ~ ReturnedSeries

\* C10 amended: with radius_km <= 0 and a reference that resolves, the
\* distance search hands back an empty result collection; the bounding search
\* raises KeyError for a negative radius and, for radius 0, hands back at
\* most rows at the reference coordinates.
C10_NonPositiveRadius ==
    (Resolves /\ last.radius_km <= 0) =>
        /\ last.op = "distance" =>
             ReturnedSeries /\ last.out.nearby = {}
        /\ (last.op = "bounding" /\ last.radius_km < 0) =>
             last.out.returned = "Raise" /\ last.out.msg = KeyError
        /\ (last.op = "bounding" /\ last.radius_km = 0) =>
             /\ last.out.returned \in {"Series", "Raise"}
             /\ \A i \in last.out.nearby :
                  PointOf(i) = PointOf(ReferenceLabel)

\* A distance search with radius 0 handed back a result collection over a
\* file that holds a row away from the reference.
C10_Witness ==
    /\ Resolves
    /\ last.radius_km = 0
    /\ last.op = "distance"
    /\ ReturnedSeries
    /\ \E i \in Geocoded : DistanceOf(i) > 0

\* Both selectors were passed to the distance search.
BothSelectors ==
    /\ last.op = "distance"
    /\ last.reference_postal_code # None
    /\ last.reference_city # None

\* C11 as stated: the distance search hands back a result only when exactly
\* one of the two selectors is passed.
C11_SelectorsExclusive ==
    (last.op = "distance" /\ ReturnedSeries) =>
        (last.reference_postal_code # None) # (last.reference_city # None)

\* C11 amended: when both selectors are passed, the postal code is the one
\* used and the city is ignored: reference_row is the geocoded rows carrying
\* that postal code, the search hands back a result when there is one and
\* fails with ReferenceNotFound when there is none.
C11_PostalCodeTakesPrecedence ==
    (BothSelectors /\ last.file.exists) =>
        LET byCode == { i \in Geocoded : last.file.rows[i].PostalCode
                                           = last.reference_postal_code }
        IN  /\ last.out.reference_row = byCode
            /\ byCode # {} => ReturnedSeries
            /\ byCode = {} => /\ last.out.returned = "None"
                              /\ last.out.msg = ReferenceNotFound

\* A distance search with a postal code and a city that name different rows
\* handed back a result.
C11_Witness ==
    /\ BothSelectors
    /\ ReturnedSeries
    /\ \E i \in Geocoded : last.file.rows[i].City = last.reference_city
    /\ \A i \in last.out.reference_row :
         last.file.rows[i].City # last.reference_city

\* C12 as stated: the bounding search takes out of the box selection only
\* the single resolved reference row.
C12_OnlyReferenceRowRemoved ==
    (last.op = "bounding" /\ ReturnedSeries) =>
        last.out.nearby = last.out.selected \ {ReferenceLabel}

\* C12 amended: the bounding search takes out of the box selection every
\* row that carries the reference postal code, and no other row: a row at
\* the reference coordinates with another PostalCode stays.
C12_AllRowsOfReferenceCodeRemoved ==
    (last.op = "bounding" /\ ReturnedSeries) =>
        last.out.nearby =
            { i \in last.out.selected :
                last.file.rows[i].PostalCode # last.reference_postal_code }

\* A bounding search whose box held a second row with the reference postal
\* code, and a row at the reference coordinates that stayed in the result.
C12_Witness ==
    /\ last.op = "bounding"
    /\ ReturnedSeries
    /\ \E i \in last.out.selected :
         /\ i # ReferenceLabel
         /\ last.file.rows[i].PostalCode = last.reference_postal_code
    /\ \E i \in last.out.nearby : PointOf(i) = PointOf(ReferenceLabel)

\* C13: the postal code passed as the reference is not among the postal
\* codes a search hands back.
C13_ReferenceCodeNotReturned ==
    (Searched /\ ReturnedSeries /\ last.reference_postal_code # None) =>
        last.reference_postal_code \notin CodesOf(last.out.nearby)

\* Several geocoded rows match the selector, at coordinates that differ.
SeveralMatches ==
    /\ Resolves
    /\ \E i \in Matching : PointOf(i) # PointOf(ReferenceLabel)

\* C14: when several geocoded rows match the selector, the search works from
\* the coordinates of the first of them in file order: the distance search
\* finds the rows within radius_km of that row, the bounding search selects
\* the box around it.
C14_FirstMatchWins ==
    SeveralMatches =>
        /\ last.op = "distance" =>
             last.out.nearby =
                 { i \in Geocoded :
                     /\ geodesic(PointOf(i), PointOf(ReferenceLabel)) > 0
                     /\ geodesic(PointOf(i), PointOf(ReferenceLabel))
                          < last.radius_km }
        /\ last.op = "bounding" =>
             last.out.selected = { i \in Geocoded : InClosedBox(i) }

\* A distance search with several matching rows found a row that is out of
\* reach of the last matching row.
C14_Witness ==
    /\ SeveralMatches
    /\ last.op = "distance"
    /\ LET lastMatch == CHOOSE i \in Matching : \A j \in Matching : i >= j
       IN  \E i \in last.out.nearby :
             geodesic(PointOf(i), PointOf(lastMatch)) >= last.radius_km

\* C15: a search step leaves the coordinates file as it was, and a search
\* repeated with the same arguments hands back the same rows.
C15_SearchStep ==
    /\ coordinates_file' = coordinates_file
    /\ ( /\ last.op = last'.op
         /\ last.reference_postal_code = last'.reference_postal_code
         /\ last.reference_city = last'.reference_city
         /\ last.radius_km = last'.radius_km )
       => last'.out = last.out

C15_DatasetUnchanged == [][last' # last => C15_SearchStep]_vars

\* A search found rows in a file that holds a row without coordinates, and
\* the file is still the one the search read.
C15_Witness ==
    /\ Searched
    /\ ReturnedSeries
    /\ last.out.nearby # {}
    /\ Geocoded # DOMAIN last.file.rows
    /\ coordinates_file = last.file

\* A segment is a code, or a range with a start and an end.
WellFormed(element) ==
    (\E k \in 1..Len(element) : element[k] = EnDash) =>
        Len(findall_digits(element, <<>>, <<>>)) = 2

\* The codes element contributes when it is visited: itself, or the codes of
\* its range.
CodesOfElement(element) ==
    IF \E k \in 1..Len(element) : element[k] = EnDash
    THEN LET numbers == findall_digits(element, <<>>, <<>>) IN
         { format_05d(n) : n \in int(numbers[1])..int(numbers[2]) }
    ELSE { Join(element) }

\* C19: every non-empty segment of the string, before or after an empty
\* segment, contributes its code or its range of codes to the returned list.
C19_EmptySegmentsSkipped ==
    conv.status = "returned" =>
        \A k \in 1..Len(split(re_sub(conv.s))) :
            LET element == split(re_sub(conv.s))[k] IN
            (element # <<>> /\ WellFormed(element)) =>
                CodesOfElement(element)
                    \subseteq { conv.s_list[j] : j \in 1..Len(conv.s_list) }

(***************************************************************************)
(* The stages and their checkpoints.                                       *)
(***************************************************************************)
StageNames ==
    {"scrape_germany_cities", "scrape_postals_code", "clean_postal_codes",
     "split_cities_postal_codes", "get_coordinates"}

\* The output file of a stage, as it is now.
OutputOf(name) ==
    CASE name = "scrape_germany_cities" -> files[CitiesFile]
      [] name = "scrape_postals_code" -> files[PostalCodesFile]
      [] name = "clean_postal_codes" -> files[CleanedFile]
      [] name = "split_cities_postal_codes" -> files[SplittedFile]
      [] name = "get_coordinates" -> coordinates_file

\* This step is a call of the stage name, made while no stage is running.
IsCallOf(name) ==
    /\ stage.status # "running"
    /\ stage' # stage
    /\ stage'.name = name

NoFileChanged == files' = files /\ coordinates_file' = coordinates_file

C16_CheckpointStep ==
    \A name \in StageNames :
        (IsCallOf(name) /\ OutputOf(name).exists) =>
            /\ stage'.requests = 0
            /\ stage'.reads \cap StageFiles = {}
            /\ stage'.status # "running"
            /\ tasks' = tasks
            /\ NoFileChanged
            /\ name = "get_coordinates" =>
                  /\ stage'.status = "returned_table"
                  /\ stage'.rows = coordinates_file.rows

\* C16: a stage called while its own output file exists makes no network
\* request, reads no input file of an earlier stage and leaves every data
\* file unchanged; get_coordinates also returns the table stored in the
\* coordinates file.
C16_CheckpointedStageIsNoOp == [][C16_CheckpointStep]_vars

C16_Witness ==
    /\ stage.name = "get_coordinates"
    /\ stage.status = "returned_table"
    /\ stage.requests = 0
    /\ stage.reads = {CoordinatesFile}
    /\ coordinates_file.exists
    /\ stage.rows = coordinates_file.rows
    /\ Len(stage.rows) > 2

C17_PrerequisiteStep ==
    /\ ( /\ IsCallOf("get_coordinates")
         /\ ~ coordinates_file.exists
         /\ ~ files[SplittedFile].exists )
       => /\ stage'.status = "returned_none"
          /\ stage'.requests = 0
          /\ tasks' = tasks
          /\ NoFileChanged
    /\ ( /\ IsCallOf("scrape_postals_code")
         /\ ~ files[PostalCodesFile].exists
         /\ ~ files[CitiesFile].exists )
       => /\ stage'.status = "returned_none"
          /\ stage'.requests = 0
          /\ NoFileChanged

\* C17: get_coordinates called when neither the coordinates file nor the
\* split file exists returns None, makes no geocoding call and creates no
\* file; scrape_postals_code called when neither its output nor the cities
\* file exists makes no request and creates no file.
C17_MissingPrerequisite == [][C17_PrerequisiteStep]_vars

C17_Witness ==
    /\ stage.name = "get_coordinates"
    /\ stage.status = "returned_none"
    /\ stage.requests = 0
    /\ ~ coordinates_file.exists
    /\ ~ files[SplittedFile].exists
    /\ tasks = <<>>

\* The task has returned or raised.
Finished(task) == task.result # Pending

\* C18: geocode_postal_code makes at most 3 attempts for one row, and an
\* attempt that ends in a timeout is followed by another attempt as long as
\* fewer than 3 attempts have been made.
C18_TimeoutRetried ==
    \A k \in 1..Len(tasks) :
        /\ Len(tasks[k].outcomes) <= 3
        /\ ( /\ Finished(tasks[k])
             /\ tasks[k].outcomes[Len(tasks[k].outcomes)] = "timed_out" )
           => Len(tasks[k].outcomes) = 3

\* C20: for every sequence of geocoder outcomes (location found, no
\* location, HTTP 503 error, other error) geocode_postal_code returns a
\* triple that starts with the postal code of its row, with None for the
\* coordinates when no location was obtained.
C20_AlwaysTriple ==
    \A k \in 1..Len(tasks) :
        ( /\ Finished(tasks[k])
          /\ \A j \in 1..Len(tasks[k].outcomes) :
                 tasks[k].outcomes[j] # "exception" )
        => /\ tasks[k].result.kind = "tuple"
           /\ tasks[k].result.postal_code = tasks[k].row.PostalCode
           /\ (\A j \in 1..Len(tasks[k].outcomes) :
                   tasks[k].outcomes[j] # "location")
              => /\ tasks[k].result.longitude = <<>>
                 /\ tasks[k].result.latitude = <<>>

\* The step in which get_coordinates gets the list of results from the pool.
CollectsResults ==
    /\ stage.status = "running"
    /\ \/ stage'.status = "returned_table"
       \/ stage'.status = "raised" /\ stage'.exception = ValueError

\* The result that geocode_postal_code gives for the row after the
\* geocoder outcomes of the task.
ComputedFrom(row, task) ==
    /\ task.row = row
    /\ task.outcomes # <<>>
    /\ Finished(task)
    /\ task.result.kind = "tuple" => task.result.postal_code = row.PostalCode
    /\ task.outcomes[Len(task.outcomes)] = "location" =>
          /\ task.result.latitude = << Location(row.PostalCode, row.City).latitude >>
          /\ task.result.longitude = << Location(row.PostalCode, row.City).longitude >>

C21_CollectStep ==
    /\ CollectsResults =>
          LET postal_codes_df == files[SplittedFile].rows IN
          /\ Len(coordinates') = Len(postal_codes_df)
          /\ Len(tasks) = Len(postal_codes_df)
          /\ \A i \in 1..Len(postal_codes_df) :
                /\ ComputedFrom(postal_codes_df[i], tasks[i])
                /\ coordinates'[i] = tasks[i].result
                /\ Cardinality({j \in 1..Len(finished) : finished[j] = i}) = 1
    /\ ( /\ IsCallOf("scrape_postals_code")
         /\ files'[PostalCodesFile] # files[PostalCodesFile] ) =>
          LET cities_df == files[CitiesFile].rows
              saved == files'[PostalCodesFile].rows
          IN  /\ Len(saved) = Len(cities_df)
              /\ stage'.requests = Len(cities_df)
              /\ \A i \in 1..Len(cities_df) :
                    /\ saved[i].City = cities_df[i].City
                    /\ saved[i].PostalCode = web[cities_df[i].City]

CompleteTable ==
    coordinates_file.exists =>
        \A i \in 1..Len(files[SplittedFile].rows) :
            \E j \in 1..Len(coordinates_file.rows) :
                /\ coordinates_file.rows[j].PostalCode
                     = files[SplittedFile].rows[i].PostalCode
                /\ coordinates_file.rows[j].City
                     = files[SplittedFile].rows[i].City

C22_CheckpointStep ==
    /\ CompleteTable'
    /\ coordinates_file' # coordinates_file =>
          /\ stage.status = "running"
          /\ \A k \in 1..Len(tasks) :
                Finished(tasks[k]) /\ tasks[k].result # TaskRaised
    /\ ( /\ stage.status = "running"
         /\ \E k \in 1..Len(tasks) : tasks[k].result = TaskRaised )
       => coordinates_file' = coordinates_file /\ ~ coordinates_file.exists
    /\ ( /\ stage.name = "get_coordinates"
         /\ stage.status = "raised"
         /\ IsCallOf("get_coordinates") )
       => /\ stage'.status = "running"
          /\ Len(tasks') = Len(files[SplittedFile].rows)

\* C22: whenever the coordinates file exists it holds a row for every row
\* of the split file; it is written only after every geocoding task has
\* finished; when a task raises no coordinates file is created, and the
\* next get_coordinates call geocodes again.
C22_AllOrNothing == [][C22_CheckpointStep]_vars

C22_Witness ==
    /\ coordinates_file.exists
    /\ CompleteTable
    /\ Len(files[SplittedFile].rows) = 3
    /\ stage.name = "get_coordinates"
    /\ stage.status = "returned_table"
    /\ stage.requests > 3
    /\ files[SplittedFile].rows[2].PostalCode = "1"
    /\ coordinates[2] = ReturnedNoneObject
    /\ \E j \in 1..Len(coordinates_file.rows) :
          /\ coordinates_file.rows[j].PostalCode = "1"
          /\ coordinates_file.rows[j].Latitude = <<>>

====
